---- MODULE Spec2Model ----
(***************************************************************************)
(* The authentication and authorization layer of the restaurant API:       *)
(* the gin handler chains registered by the routers, the Authentication()  *)
(* and RequireAdmin() middleware, the token helpers they call and the       *)
(* Signup handler that issues the tokens clients present.                  *)
(*                                                                         *)
(* One request is followed through its chain stage by stage; the wall      *)
(* clock may advance between any two stages.                               *)
(***************************************************************************)
EXTENDS Integers, Sequences, FiniteSets, TLC

VARIABLES
    now,      \* wall clock (time.Now()), in ticks
    users,    \* the "users" collection: a set of user documents
    nextId,   \* source of primitive.NewObjectID()
    issued,   \* tokens handed to clients in response bodies
    req,      \* the gin.Context of the request being served
    secretOk, \* whether the process was started with a usable signing secret
    procs,    \* the gin.Contexts of requests served concurrently
    colls     \* the documents of the six resource collections

vars == <<now, users, nextId, issued, req, secretOk, procs, colls>>

-----------------------------------------------------------------------------
(* Bounds of the model *)

MaxTime == 2
MaxUsers == 1
MaxIssued == 3
NumProcs == 2
MaxDocs == 2

(* Token lifetimes, in ticks: the access token is the short-lived one. *)
AccessTTL == 1
RefreshTTL == 2

-----------------------------------------------------------------------------
(* Request inputs *)

Emails == {"a@x.io", "b@x.io"}
FirstNames == {"Ann"}
LastNames == {"Lee"}
Passwords == {"secret1"}
Phones == {"555"}
UserTypeInputs == {"ADMIN", "USER", "GUEST"}

SECRET_KEY == "server-secret"
AttackerKey == "attacker-key"

-----------------------------------------------------------------------------
(* Tokens: a signed-claims token is its claims plus a signature over them *)

NoClaims ==
    [Email |-> "", First_Name |-> "", Last_Name |-> "", User_Type |-> "",
     ExpiresAt |-> 0]

Sign(key, claims) == [key |-> key, msg |-> claims]

NoSig == Sign("", NoClaims)

AbsentToken == [form |-> "absent", claims |-> NoClaims, sig |-> NoSig]
EmptyToken == [form |-> "empty", claims |-> NoClaims, sig |-> NoSig]
MalformedToken == [form |-> "malformed", claims |-> NoClaims, sig |-> NoSig]

SignedToken(claims) ==
    [form |-> "jwt", claims |-> claims, sig |-> Sign(SECRET_KEY, claims)]

GenerateAllTokens(email, firstName, lastName, userType) ==
    LET claims(ttl) ==
            [Email |-> email, First_Name |-> firstName, Last_Name |-> lastName,
             User_Type |-> userType, ExpiresAt |-> now + ttl]
    IN  [token |-> SignedToken(claims(AccessTTL)),
         refreshToken |-> SignedToken(claims(RefreshTTL)),
         err |-> ~secretOk]

(* Parsing a token at a given clock value: the form, then the signature,   *)
(* then the expiry; the claims are handed out only when all three pass.    *)
ParseWithClaims(signedToken, clock) ==
    IF signedToken.form # "jwt"
    THEN [claims |-> NoClaims, msg |-> "MalformedToken"]
    ELSE IF signedToken.sig # Sign(SECRET_KEY, signedToken.claims)
    THEN [claims |-> NoClaims, msg |-> "InvalidSignature"]
    ELSE IF clock > signedToken.claims.ExpiresAt
    THEN [claims |-> NoClaims, msg |-> "ExpiredToken"]
    ELSE [claims |-> signedToken.claims, msg |-> ""]

ValidateToken(signedToken) == ParseWithClaims(signedToken, now)

-----------------------------------------------------------------------------
(* Password helpers: a one-way digest, told apart from any plaintext by    *)
(* its prefix, and its verification                                        *)

HashPassword(password) == "$2a$" \o password

VerifyPassword(hashedPassword, password) ==
    hashedPassword = HashPassword(password)

-----------------------------------------------------------------------------
(* The routing tables: each route's chain of handlers, in registration order *)

R(method, path, chain) == [method |-> method, path |-> path, chain |-> chain]

A == "Authentication"
Adm == "RequireAdmin"

UserRoutes == <<
    R("POST", "/auth/signup", <<"Signup">>),
    R("POST", "/auth/login", <<"Login">>),
    R("GET", "/auth/user", <<A, "GetUser">>) >>

(* RequireAdmin registered ahead of Authentication on POST /foods *)
FoodRoutes_AdminFirst == <<
    R("GET", "/foods", <<"GetFoods">>),
    R("GET", "/foods/:id", <<"GetFood">>),
    R("POST", "/foods", <<Adm, A, "CreateFood">>),
    R("PUT", "/foods/:id", <<A, Adm, "UpdateFood">>),
    R("DELETE", "/foods/:id", <<A, Adm, "DeleteFood">>) >>

(* DELETE /foods/:id registered without RequireAdmin *)
FoodRoutes_DeleteUnguarded == <<
    R("GET", "/foods", <<"GetFoods">>),
    R("GET", "/foods/:id", <<"GetFood">>),
    R("POST", "/foods", <<A, Adm, "CreateFood">>),
    R("PUT", "/foods/:id", <<A, Adm, "UpdateFood">>),
    R("DELETE", "/foods/:id", <<A, "DeleteFood">>) >>

FoodRoutes == <<
    R("GET", "/foods", <<"GetFoods">>),
    R("GET", "/foods/:id", <<"GetFood">>),
    R("POST", "/foods", <<A, Adm, "CreateFood">>),
    R("PUT", "/foods/:id", <<A, Adm, "UpdateFood">>),
    R("DELETE", "/foods/:id", <<A, Adm, "DeleteFood">>) >>

MenuRoutes == <<
    R("GET", "/menus", <<"GetMenus">>),
    R("GET", "/menus/:id", <<"GetMenu">>),
    R("POST", "/menus", <<A, Adm, "CreateMenu">>),
    R("PUT", "/menus/:id", <<A, Adm, "UpdateMenu">>),
    R("DELETE", "/menus/:id", <<A, Adm, "DeleteMenu">>) >>

OrderRoutes == <<
    R("GET", "/orders", <<A, "GetOrders">>),
    R("GET", "/orders/:id", <<A, "GetOrder">>),
    R("POST", "/orders", <<A, "CreateOrder">>),
    R("PUT", "/orders/:id", <<A, "UpdateOrder">>),
    R("DELETE", "/orders/:id", <<A, "DeleteOrder">>) >>

TableRoutes == <<
    R("GET", "/tables", <<"GetTables">>),
    R("GET", "/tables/:id", <<"GetTable">>),
    R("POST", "/tables", <<A, Adm, "CreateTable">>),
    R("PUT", "/tables/:id", <<A, Adm, "UpdateTable">>),
    R("DELETE", "/tables/:id", <<A, Adm, "DeleteTable">>) >>

OrderItemRoutes == <<
    R("GET", "/order-items", <<A, "GetOrderItems">>),
    R("GET", "/order-items/:id", <<A, "GetOrderItem">>),
    R("POST", "/order-items", <<A, "CreateOrderItem">>),
    R("PUT", "/order-items/:id", <<A, "UpdateOrderItem">>),
    R("DELETE", "/order-items/:id", <<A, "DeleteOrderItem">>) >>

InvoiceRoutes == <<
    R("GET", "/invoices", <<A, "GetInvoices">>),
    R("GET", "/invoices/:id", <<A, "GetInvoice">>),
    R("POST", "/invoices", <<A, "CreateInvoice">>),
    R("PUT", "/invoices/:id", <<A, Adm, "UpdateInvoice">>) >>

(* main(): the routers are set up on one engine, in this order *)
Routes ==
    UserRoutes \o FoodRoutes \o MenuRoutes \o OrderRoutes \o TableRoutes
        \o OrderItemRoutes \o InvoiceRoutes

RouteIds == 1..Len(Routes)

Middleware == {A, Adm}

-----------------------------------------------------------------------------
(* gin.Context: the request, its position in the chain, its keys and the    *)
(* response written so far.  status = 0: no response has been written.     *)

CtxKeys == {"email", "first_name", "last_name", "user_type"}
Unset == "<unset>"
NoKeys == [k \in CtxKeys |-> Unset]

NoBody ==
    [json |-> FALSE, first_name |-> "", last_name |-> "", email |-> "",
     password |-> "", phone |-> "", user_type |-> ""]

(* No document: a FindOne without a match, a response without a user *)
NoUser == [none |-> TRUE]

(* c.Param("id"): hex tells whether it is a well-formed object id *)
NoParam == [hex |-> FALSE, oid |-> 0]

(* The body of a resource request; NoInput does not bind *)
NoInput == [none |-> TRUE]
NoDoc == [none |-> TRUE]

IdleCtx ==
    [pc |-> "idle", route |-> 1, token |-> AbsentToken,
     authorization |-> AbsentToken, body |-> NoBody, index |-> 1,
     aborted |-> FALSE, keys |-> NoKeys, status |-> 0, error |-> "",
     by |-> "", data |-> AbsentToken, user |-> NoUser, writes |-> 0,
     param |-> NoParam, input |-> NoInput, doc |-> NoDoc,
     ran |-> <<>>, validated |-> 0, validatedAt |-> 0]

Chain(c) == Routes[c.route].chain
Stage(c) == Chain(c)[c.index]
Handler(c) == Chain(c)[Len(Chain(c))]

(* c.Request.Header.Get(key): "" when the header is absent *)
HeaderGet(c) == IF c.token.form = "absent" THEN EmptyToken ELSE c.token

(* c.JSON, c.Abort, c.Set, c.GetString *)
JSON(c, who, status, error) ==
    [c EXCEPT !.status = status, !.error = error, !.by = who,
              !.writes = @ + 1]
Abort(c) == [c EXCEPT !.aborted = TRUE]
Set(c, key, value) == [c EXCEPT !.keys[key] = value]
GetString(c, key) == IF c.keys[key] = Unset THEN "" ELSE c.keys[key]

(* The engine enters a handler of the chain ... *)
Enter(c) == [c EXCEPT !.ran = Append(@, Stage(c))]

(* ... and c.Next() moves on to the following one unless the chain was     *)
(* aborted or is exhausted.                                                *)
Advance(c) ==
    IF c.aborted \/ c.index = Len(Chain(c))
    THEN [c EXCEPT !.pc = "done"]
    ELSE [c EXCEPT !.index = @ + 1]

-----------------------------------------------------------------------------
(* middleware.Authentication and middleware.RequireAdmin *)

(* The four c.Set calls of Authentication *)
SetClaims(c, claims) ==
    Set(Set(Set(Set(c,
        "email", claims.Email),
        "first_name", claims.First_Name),
        "last_name", claims.Last_Name),
        "user_type", claims.User_Type)

(* The record of a call of helpers.ValidateToken and of the clock it saw *)
Validated(c) == [c EXCEPT !.validated = @ + 1, !.validatedAt = now]

(* Variants of the two middleware functions with one plausible slip each *)

(* the c.Abort() of the missing-header branch is left out *)
Authentication_NoAbortOnMissing(c) ==
    LET clientToken == HeaderGet(c)
    IN  IF clientToken = EmptyToken
        THEN JSON(c, A, 401, "No Authorization header provided")
        ELSE LET v == ValidateToken(clientToken)
             IN  IF v.msg # ""
                 THEN Abort(JSON(Validated(c), A, 401, v.msg))
                 ELSE SetClaims(Validated(c), v.claims)

(* the c.Abort() of the validation-error branch is left out *)
Authentication_NoAbortOnError(c) ==
    LET clientToken == HeaderGet(c)
    IN  IF clientToken = EmptyToken
        THEN Abort(JSON(c, A, 401, "No Authorization header provided"))
        ELSE LET v == ValidateToken(clientToken)
             IN  IF v.msg # ""
                 THEN JSON(Validated(c), A, 401, v.msg)
                 ELSE SetClaims(Validated(c), v.claims)

(* first_name is set from the LastName claim *)
Authentication_WrongClaim(c) ==
    LET clientToken == HeaderGet(c)
    IN  IF clientToken = EmptyToken
        THEN Abort(JSON(c, A, 401, "No Authorization header provided"))
        ELSE LET v == ValidateToken(clientToken)
             IN  IF v.msg # ""
                 THEN Abort(JSON(Validated(c), A, 401, v.msg))
                 ELSE Set(SetClaims(Validated(c), v.claims),
                          "first_name", v.claims.Last_Name)

(* the claims are read off the token before it is validated *)
Authentication_ReadThenVerify(c) ==
    LET clientToken == HeaderGet(c)
    IN  IF clientToken = EmptyToken
        THEN Abort(JSON(c, A, 401, "No Authorization header provided"))
        ELSE LET v == ValidateToken(clientToken)
                 c1 == SetClaims(Validated(c), clientToken.claims)
             IN  IF v.msg # ""
                 THEN Abort(JSON(c1, A, 401, v.msg))
                 ELSE c1

(* errMsg is never looked at *)
Authentication_IgnoresErrMsg(c) ==
    LET clientToken == HeaderGet(c)
    IN  IF clientToken = EmptyToken
        THEN Abort(JSON(c, A, 401, "No Authorization header provided"))
        ELSE LET v == ValidateToken(clientToken)
             IN  SetClaims(Validated(c), v.claims)

(* the c.Abort() of RequireAdmin is left out *)
RequireAdmin_NoAbort(c) ==
    LET userType == GetString(c, "user_type")
    IN  IF userType # "ADMIN"
        THEN JSON(c, Adm, 403, "Admin access required")
        ELSE c

(* the comparison of RequireAdmin is inverted *)
RequireAdmin_Inverted(c) ==
    LET userType == GetString(c, "user_type")
    IN  IF userType = "ADMIN"
        THEN Abort(JSON(c, Adm, 403, "Admin access required"))
        ELSE c

(* Authentication also asking the store whether the token is the one last *)
(* saved for a user                                                       *)
Authentication_ChecksStore(c) ==
    LET clientToken == HeaderGet(c)
    IN  IF clientToken = EmptyToken
        THEN Abort(JSON(c, A, 401, "No Authorization header provided"))
        ELSE LET v == ValidateToken(clientToken)
             IN  IF v.msg # ""
                 THEN Abort(JSON(Validated(c), A, 401, v.msg))
                 ELSE IF \A u \in users : u.token # clientToken
                 THEN Abort(JSON(Validated(c), A, 401, "token revoked"))
                 ELSE SetClaims(Validated(c), v.claims)

(* Authentication validating a second time after a failed validation *)
Authentication_RetriesOnError(c) ==
    LET clientToken == HeaderGet(c)
    IN  IF clientToken = EmptyToken
        THEN Abort(JSON(c, A, 401, "No Authorization header provided"))
        ELSE LET v == ValidateToken(clientToken)
             IN  IF v.msg # ""
                 THEN LET c1 == Validated(c)
                          v2 == ValidateToken(clientToken)
                      IN  IF v2.msg # ""
                          THEN Abort(JSON(Validated(c1), A, 401, v2.msg))
                          ELSE SetClaims(Validated(c1), v2.claims)
                 ELSE SetClaims(Validated(c), v.claims)

Authentication(c) ==
    LET clientToken == HeaderGet(c)
    IN  IF clientToken = EmptyToken
        THEN Abort(JSON(c, A, 401, "No Authorization header provided"))
        ELSE LET v == ValidateToken(clientToken)
             IN  IF v.msg # ""
                 THEN Abort(JSON(Validated(c), A, 401, v.msg))
                 ELSE SetClaims(Validated(c), v.claims)

(* RequireAdmin turning away only the role USER *)
RequireAdmin_PassesUnset(c) ==
    LET userType == GetString(c, "user_type")
    IN  IF userType = "USER"
        THEN Abort(JSON(c, Adm, 403, "Admin access required"))
        ELSE c

RequireAdmin(c) ==
    LET userType == GetString(c, "user_type")
    IN  IF userType # "ADMIN"
        THEN Abort(JSON(c, Adm, 403, "Admin access required"))
        ELSE c

-----------------------------------------------------------------------------
(* controllers.Signup *)

(* validate.Struct(user) against the tags of models.User *)
IsEmail(s) == s \in Emails
(* The eq=ADMIN|eq=USER tag of user_type left out *)
ValidUser_AnyRole(user) ==
    /\ Len(user.first_name) >= 2 /\ Len(user.first_name) <= 100
    /\ Len(user.last_name) >= 2 /\ Len(user.last_name) <= 100
    /\ IsEmail(user.email)
    /\ Len(user.password) >= 6
    /\ user.phone # ""
    /\ user.user_type # ""

ValidUser(user) ==
    /\ Len(user.first_name) >= 2 /\ Len(user.first_name) <= 100
    /\ Len(user.last_name) >= 2 /\ Len(user.last_name) <= 100
    /\ IsEmail(user.email)
    /\ Len(user.password) >= 6
    /\ user.phone # ""
    /\ user.user_type \in {"ADMIN", "USER"}

CountDocuments(email) == Cardinality({u \in users : u.email = email})

(* first and last name passed in the wrong order *)
SignupTokens_NamesSwapped(user) ==
    GenerateAllTokens(user.email, user.last_name, user.first_name,
                      user.user_type)

(* Signup issuing every token with the role USER *)
SignupTokens_RoleUser(user) ==
    GenerateAllTokens(user.email, user.first_name, user.last_name, "USER")

(* The call of helpers.GenerateAllTokens in Signup *)
SignupTokens(user) ==
    GenerateAllTokens(user.email, user.first_name, user.last_name,
                      user.user_type)

Unchanged(c) == [c |-> c, users |-> users, nextId |-> nextId, issued |-> issued]

(* fault: which call of the handler fails, if any *)

(* Signup up to the existence check: a response is written on every early  *)
(* return, none when the handler goes on to create the user.               *)
(* The existence check letting a first duplicate through *)
SignupCheck_CountAboveOne(c, fault) ==
    LET user == c.body
        h == "Signup"
    IN  IF ~user.json
        THEN JSON(c, h, 400, "invalid request body")
        ELSE IF ~ValidUser(user)
        THEN JSON(c, h, 400, "validation failed")
        ELSE IF fault = "count"
        THEN JSON(c, h, 500, "Error checking email")
        ELSE IF CountDocuments(user.email) > 1
        THEN JSON(c, h, 409, "Email already exists")
        ELSE c

(* The document keeping the password as it was submitted *)
SignupDocument_Plaintext(user, tokens) ==
    [ID |-> nextId,
     first_name |-> user.first_name,
     last_name |-> user.last_name,
     email |-> user.email,
     password |-> user.password,
     phone |-> user.phone,
     token |-> tokens.token,
     refresh_token |-> tokens.refreshToken,
     created_at |-> now,
     updated_at |-> now,
     user_type |-> user.user_type]

SignupCheck(c, fault) ==
    LET user == c.body
        h == "Signup"
    IN  IF ~user.json
        THEN JSON(c, h, 400, "invalid request body")
        ELSE IF ~ValidUser(user)
        THEN JSON(c, h, 400, "validation failed")
        ELSE IF fault = "count"
        THEN JSON(c, h, 500, "Error checking email")
        ELSE IF CountDocuments(user.email) > 0
        THEN JSON(c, h, 409, "Email already exists")
        ELSE c

(* The document Signup inserts *)
SignupDocument(user, tokens) ==
    [ID |-> nextId,
     first_name |-> user.first_name,
     last_name |-> user.last_name,
     email |-> user.email,
     password |-> HashPassword(user.password),
     phone |-> user.phone,
     token |-> tokens.token,
     refresh_token |-> tokens.refreshToken,
     created_at |-> now,
     updated_at |-> now,
     user_type |-> user.user_type]

(* Signup answering 201 with the token although InsertOne failed *)
SignupCreate_CreatedOnInsertFailure(c, fault) ==
    LET user == c.body
        h == "Signup"
        tokens == SignupTokens(user)
        doc == SignupDocument(user, tokens)
    IN  IF fault = "hash"
        THEN Unchanged(JSON(c, h, 500, "Error hashing password"))
        ELSE IF tokens.err
        THEN [Unchanged(JSON(c, h, 500, "Error generating tokens"))
                 EXCEPT !.nextId = nextId + 1]
        ELSE [c |-> [JSON(c, h, 201, "") EXCEPT !.data = tokens.token,
                                                !.user = doc],
              users |-> IF fault = "insert" THEN users ELSE users \cup {doc},
              nextId |-> nextId + 1,
              issued |-> issued \cup {tokens.token, tokens.refreshToken}]

(* Signup from the hashing of the password to the response *)
SignupCreate(c, fault) ==
    LET user == c.body
        h == "Signup"
        tokens == SignupTokens(user)
        doc == SignupDocument(user, tokens)
    IN  IF fault = "hash"
        THEN Unchanged(JSON(c, h, 500, "Error hashing password"))
        ELSE IF tokens.err
        THEN [Unchanged(JSON(c, h, 500, "Error generating tokens"))
                 EXCEPT !.nextId = nextId + 1]
        ELSE IF fault = "insert"
        THEN [Unchanged(JSON(c, h, 500, "User was not created"))
                 EXCEPT !.nextId = nextId + 1]
        ELSE [c |-> [JSON(c, h, 201, "") EXCEPT !.data = tokens.token,
                                                !.user = doc],
              users |-> users \cup {doc},
              nextId |-> nextId + 1,
              issued |-> issued \cup {tokens.token, tokens.refreshToken}]

Responded(c, c0) == c.writes > c0.writes

Signup(c, fault) ==
    LET c1 == SignupCheck(c, fault)
    IN  IF Responded(c1, c) THEN Unchanged(c1) ELSE SignupCreate(c1, fault)

SignupFaults == {"none", "count", "hash", "insert"}

-----------------------------------------------------------------------------
(* controllers.Login and controllers.GetUser *)

(* FindOne(email): the documents it may decode, NoUser when none matches *)
FindOne(email) ==
    IF CountDocuments(email) = 0 THEN {NoUser}
    ELSE {u \in users : u.email = email}

(* A $set that names the token and updated_at but not refresh_token *)
UpdateTokens_WithoutRefresh(id, tokens) ==
    {IF u.ID = id
     THEN [u EXCEPT !.token = tokens.token, !.updated_at = now]
     ELSE u : u \in users}

(* UpdateOne by _id with the $set of Login *)
UpdateTokens(id, tokens) ==
    {IF u.ID = id
     THEN [u EXCEPT !.token = tokens.token,
                    !.refresh_token = tokens.refreshToken,
                    !.updated_at = now]
     ELSE u : u \in users}

(* The email and the first name passed in each other's place *)
LoginTokens_ArgsSwapped(foundUser) ==
    GenerateAllTokens(foundUser.first_name, foundUser.email,
                      foundUser.last_name, foundUser.user_type)

(* The call of helpers.GenerateAllTokens in Login *)
LoginTokens(foundUser) ==
    GenerateAllTokens(foundUser.email, foundUser.first_name,
                      foundUser.last_name, foundUser.user_type)

(* The "user" object of the Login response *)
LoginUser(foundUser) ==
    [id |-> foundUser.ID,
     email |-> foundUser.email,
     first_name |-> foundUser.first_name,
     last_name |-> foundUser.last_name,
     user_type |-> foundUser.user_type]

(* Login without the call of helpers.VerifyPassword *)
LoginCheck_SkipsVerify(c, found, fault) ==
    LET loginReq == c.body
        h == "Login"
    IN  IF ~loginReq.json
        THEN JSON(c, h, 400, "invalid request body")
        ELSE IF fault = "find" \/ found = NoUser
        THEN JSON(c, h, 401, "Invalid email or password")
        ELSE c

(* Login telling an unknown email from a wrong password *)
LoginCheck_DistinctErrors(c, found, fault) ==
    LET loginReq == c.body
        h == "Login"
    IN  IF ~loginReq.json
        THEN JSON(c, h, 400, "invalid request body")
        ELSE IF fault = "find" \/ found = NoUser
        THEN JSON(c, h, 404, "User not found")
        ELSE IF ~VerifyPassword(found.password, loginReq.password)
        THEN JSON(c, h, 401, "Invalid email or password")
        ELSE c

(* Login up to the verification of the password; found: what FindOne      *)
(* decoded.                                                                *)
LoginCheck(c, found, fault) ==
    LET loginReq == c.body
        h == "Login"
    IN  IF ~loginReq.json
        THEN JSON(c, h, 400, "invalid request body")
        ELSE IF fault = "find" \/ found = NoUser
        THEN JSON(c, h, 401, "Invalid email or password")
        ELSE IF ~VerifyPassword(found.password, loginReq.password)
        THEN JSON(c, h, 401, "Invalid email or password")
        ELSE c

(* Login from the issuing of the tokens to the response *)
LoginUpdate(c, foundUser, fault) ==
    LET h == "Login"
        tokens == LoginTokens(foundUser)
    IN  IF tokens.err
        THEN Unchanged(JSON(c, h, 500, "Error generating tokens"))
        ELSE IF fault = "update"
        THEN Unchanged(JSON(c, h, 500, "Error updating tokens"))
        ELSE [c |-> [JSON(c, h, 200, "")
                        EXCEPT !.data = tokens.token,
                               !.user = LoginUser(foundUser)],
              users |-> UpdateTokens(foundUser.ID, tokens),
              nextId |-> nextId,
              issued |-> issued \cup {tokens.token}]

Login(c, found, fault) ==
    LET c1 == LoginCheck(c, found, fault)
    IN  IF Responded(c1, c) THEN Unchanged(c1)
        ELSE LoginUpdate(c1, found, fault)

LoginFaults == {"none", "find", "update"}

(* GetUser without the blanking of the password *)
GetUser_KeepsPassword(c, found, fault) ==
    LET h == "GetUser"
    IN  IF fault = "find" \/ found = NoUser
        THEN Unchanged(JSON(c, h, 404, "User not found"))
        ELSE [Unchanged([JSON(c, h, 200, "") EXCEPT !.user = found])
                 EXCEPT !.issued = issued \cup {found.token, found.refresh_token}]

GetUser(c, found, fault) ==
    LET h == "GetUser"
    IN  IF fault = "find" \/ found = NoUser
        THEN Unchanged(JSON(c, h, 404, "User not found"))
        ELSE [Unchanged([JSON(c, h, 200, "")
                            EXCEPT !.user = [found EXCEPT !.password = ""]])
                 EXCEPT !.issued = issued \cup {found.token, found.refresh_token}]

-----------------------------------------------------------------------------
(* The other handlers: what they do to their collections is not part of    *)
(* the gate layer; a run of one is its entry in c.ran and the response it  *)
(* writes.                                                                 *)

Modelled == {"Signup", "Login", "GetUser"}

HandlerStatuses(h) == {200, 201, 400, 404, 500}

ResourceHandler(c, status) == JSON(c, Handler(c), status, "")

-----------------------------------------------------------------------------
(* The controllers of foods, menus, tables, orders, order items, invoices  *)

Kinds == <<
    [res |-> "foods", one |-> "Food", noun |-> "food", title |-> "Food"],
    [res |-> "menus", one |-> "Menu", noun |-> "menu", title |-> "Menu"],
    [res |-> "tables", one |-> "Table", noun |-> "table", title |-> "Table"],
    [res |-> "orders", one |-> "Order", noun |-> "order", title |-> "Order"],
    [res |-> "order_items", one |-> "OrderItem", noun |-> "order item",
     title |-> "Order item"],
    [res |-> "invoices", one |-> "Invoice", noun |-> "invoice",
     title |-> "Invoice"] >>

Resources == {Kinds[i].res : i \in 1..Len(Kinds)}

KindTable ==
    [res \in Resources |-> Kinds[CHOOSE i \in 1..Len(Kinds) : Kinds[i].res = res]]

Kind(res) == KindTable[res]

Title(res) == Kind(res).title

(* The handler names of a resource and what each does *)
OpsOf(res) ==
    LET one == Kind(res).one
    IN  [list |-> "Get" \o one \o "s", get |-> "Get" \o one,
         create |-> "Create" \o one, update |-> "Update" \o one,
         delete |-> "Delete" \o one]

(* invoiceController.go has no delete *)
OpNames(res) ==
    IF res = "invoices" THEN {"list", "get", "create", "update"}
    ELSE {"list", "get", "create", "update", "delete"}

ResourceHandlers ==
    UNION {{OpsOf(res)[op] : op \in OpNames(res)} : res \in Resources}

HandlerTable ==
    [h \in ResourceHandlers |->
        LET res == CHOOSE r \in Resources :
                      \E op \in OpNames(r) : OpsOf(r)[op] = h
        IN  [res |-> res,
             op |-> CHOOSE op \in OpNames(res) : OpsOf(res)[op] = h]]

ResOf(h) == HandlerTable[h].res
OpOf(h) == HandlerTable[h].op

(* The validate tags of the models: the fields a body carries and the      *)
(* constraint on each ("free": no tag).                                    *)
Schema(res) ==
    CASE res = "foods" ->
           [name |-> "min2", price |-> "gt0", food_image |-> "required",
            menu_id |-> "required"]
      [] res = "menus" ->
           [name |-> "required", category |-> "required",
            start_date |-> "free", end_date |-> "free"]
      [] res = "tables" ->
           [table_number |-> "min1", capacity |-> "min1",
            is_available |-> "flag"]
      [] res = "orders" ->
           [table_id |-> "required", status |-> "required"]
      [] res = "order_items" ->
           [order_id |-> "required", food_id |-> "required",
            quantity |-> "min1", unit_price |-> "gt0"]
      [] res = "invoices" ->
           [order_id |-> "required", payment_method |-> "required",
            total_amount |-> "gt0", payment_status |-> "required"]

Fields(res) == DOMAIN Schema(res)

(* Whether value v meets the constraint of a tag *)
Meets(tag, v) ==
    CASE tag = "min2" -> Len(v) >= 2 /\ Len(v) <= 100
      [] tag = "required" -> v # ""
      [] tag = "min1" -> v >= 1
      [] tag = "gt0" -> v > 0
      [] OTHER -> TRUE

(* validate.Struct on a bound body; a flag is a bool and "required" on it  *)
(* is not asked for by any model.                                          *)
ValidBody(res, body) ==
    \A f \in Fields(res) : Meets(Schema(res)[f], body[f])

(* primitive.ObjectIDFromHex *)
ObjectIDFromHex(param) == [objID |-> param.oid, err |-> ~param.hex]

(* The keys time.Now() is written to by a create *)
StampsOf(res) ==
    IF res = "orders" THEN {"created_at", "updated_at", "order_date"}
    ELSE {"created_at", "updated_at"}

(* The document a create inserts *)
NewDocument(res, body) ==
    [k \in {"_id"} \cup StampsOf(res) \cup Fields(res) |->
        IF k = "_id" THEN nextId
        ELSE IF k \in StampsOf(res) THEN now
        ELSE IF res = "tables" /\ k = "is_available" THEN TRUE
        ELSE body[k]]

(* The $set document of an update *)
SetOf(res, body) ==
    [k \in Fields(res) \cup {"updated_at"} |->
        IF k = "updated_at" THEN now ELSE body[k]]

(* $set applied to one document *)
ApplySet(d, set) ==
    [k \in DOMAIN d \cup DOMAIN set |-> IF k \in DOMAIN set THEN set[k] ELSE d[k]]

Matched(res, objID) == {d \in colls[res] : d["_id"] = objID}

(* UpdateOne with the upsert option: a filter that matches nothing        *)
(* inserts the $set document under the id of the filter.                   *)
UpdateOne_Upsert(res, objID, set) ==
    IF Matched(res, objID) = {}
    THEN colls[res] \cup {ApplySet([k \in {"_id"} |-> objID], set)}
    ELSE {IF d["_id"] = objID THEN ApplySet(d, set) ELSE d : d \in colls[res]}

(* UpdateMany with a filter every document meets *)
UpdateOne_EveryDocument(res, objID, set) ==
    {ApplySet(d, set) : d \in colls[res]}

(* UpdateOne without upsert: the collection afterwards *)
UpdateOne(res, objID, set) ==
    {IF d["_id"] = objID THEN ApplySet(d, set) ELSE d : d \in colls[res]}

(* DeleteOne: the collection afterwards *)
DeleteOne(res, objID) == colls[res] \ Matched(res, objID)

Same(c) == [c |-> c, colls |-> colls, nextId |-> nextId]

GetAll(res, c, fault) ==
    LET h == OpsOf(res).list
    IN  IF fault = "find"
        THEN Same(JSON(c, h, 500, "Error fetching " \o Kind(res).noun \o "s"))
        ELSE IF fault = "decode"
        THEN Same(JSON(c, h, 500, "Error decoding " \o Kind(res).noun \o "s"))
        ELSE Same(JSON(c, h, 200, ""))

GetOne(res, c, fault) ==
    LET h == OpsOf(res).get
        id == ObjectIDFromHex(c.param)
    IN  IF id.err
        THEN Same(JSON(c, h, 400, "Invalid " \o Kind(res).noun \o " ID"))
        ELSE IF fault = "find" \/ Matched(res, id.objID) = {}
        THEN Same(JSON(c, h, 404, Title(res) \o " not found"))
        ELSE Same([JSON(c, h, 200, "") EXCEPT
                      !.doc = CHOOSE d \in Matched(res, id.objID) : TRUE])

Create(res, c, fault) ==
    LET h == OpsOf(res).create
        doc == NewDocument(res, c.input)
    IN  IF c.input = NoInput
        THEN Same(JSON(c, h, 400, "invalid request body"))
        ELSE IF ~ValidBody(res, c.input)
        THEN Same(JSON(c, h, 400, "validation failed"))
        ELSE IF fault = "insert"
        THEN [Same(JSON(c, h, 500, "Failed to create " \o Kind(res).noun))
                 EXCEPT !.nextId = nextId + 1]
        ELSE [c |-> [JSON(c, h, 201, "") EXCEPT !.doc = doc],
              colls |-> [colls EXCEPT ![res] = @ \cup {doc}],
              nextId |-> nextId + 1]

Update(res, c, fault) ==
    LET h == OpsOf(res).update
        id == ObjectIDFromHex(c.param)
    IN  IF id.err
        THEN Same(JSON(c, h, 400, "Invalid " \o Kind(res).noun \o " ID"))
        ELSE IF c.input = NoInput
        THEN Same(JSON(c, h, 400, "invalid request body"))
        ELSE IF fault = "update"
        THEN Same(JSON(c, h, 500, "Failed to update " \o Kind(res).noun))
        ELSE LET after == [colls EXCEPT
                              ![res] = UpdateOne(res, id.objID,
                                                 SetOf(res, c.input))]
             IN  IF Matched(res, id.objID) = {}
                 THEN [c |-> JSON(c, h, 404, Title(res) \o " not found"),
                       colls |-> after, nextId |-> nextId]
                 ELSE [c |-> JSON(c, h, 200, ""),
                       colls |-> after, nextId |-> nextId]

Delete(res, c, fault) ==
    LET h == OpsOf(res).delete
        id == ObjectIDFromHex(c.param)
    IN  IF id.err
        THEN Same(JSON(c, h, 400, "Invalid " \o Kind(res).noun \o " ID"))
        ELSE IF fault = "delete"
        THEN Same(JSON(c, h, 500, "Failed to delete " \o Kind(res).noun))
        ELSE LET after == [colls EXCEPT ![res] = DeleteOne(res, id.objID)]
             IN  IF Matched(res, id.objID) = {}
                 THEN [c |-> JSON(c, h, 404, Title(res) \o " not found"),
                       colls |-> after, nextId |-> nextId]
                 ELSE [c |-> JSON(c, h, 200, ""),
                       colls |-> after, nextId |-> nextId]

(* The handler at the end of the chain of c *)
Resource(c, fault) ==
    LET res == ResOf(Handler(c))
        op == OpOf(Handler(c))
    IN  CASE op = "list" -> GetAll(res, c, fault)
          [] op = "get" -> GetOne(res, c, fault)
          [] op = "create" -> Create(res, c, fault)
          [] op = "update" -> Update(res, c, fault)
          [] op = "delete" -> Delete(res, c, fault)

(* The database errors an operation can meet *)
ResFaults(op) ==
    CASE op = "list" -> {"none", "find", "decode"}
      [] op = "get" -> {"none", "find"}
      [] op = "create" -> {"none", "insert"}
      [] op = "update" -> {"none", "update"}
      [] op = "delete" -> {"none", "delete"}

(* Bodies: two that validate, the first with one field breaking its tag,   *)
(* and one with every checked field breaking its tag.                      *)
First(tag) ==
    CASE tag = "min2" -> "Tea" [] tag = "required" -> "a"
      [] tag = "flag" -> TRUE [] OTHER -> 1
Second(tag) ==
    CASE tag = "min2" -> "Pie" [] tag = "required" -> "b"
      [] tag = "flag" -> FALSE [] OTHER -> 2
Breaking(tag) ==
    CASE tag = "min2" -> "x" [] tag = "required" -> "" [] OTHER -> 0

Checked(res) == {f \in Fields(res) : Schema(res)[f] \notin {"free", "flag"}}

FirstBody(res) == [f \in Fields(res) |-> First(Schema(res)[f])]
SecondBody(res) == [f \in Fields(res) |-> Second(Schema(res)[f])]
BrokenBody(res) ==
    [f \in Fields(res) |->
        IF f \in Checked(res) THEN Breaking(Schema(res)[f])
        ELSE First(Schema(res)[f])]

CreateInputs ==
    [res \in Resources |->
        {NoInput, FirstBody(res)}
        \cup {[FirstBody(res) EXCEPT ![g] = Breaking(Schema(res)[g])] :
              g \in Checked(res)}]

UpdateInputs ==
    [res \in Resources |-> {NoInput, SecondBody(res), BrokenBody(res)}]

Params ==
    {NoParam} \cup {[hex |-> TRUE, oid |-> i] : i \in 1..(MaxDocs + 1)}

-----------------------------------------------------------------------------
(* What a client can send *)

(* Tokens made from an issued one without the server's key *)
Forged(t) ==
    { [t EXCEPT !.sig = Sign(AttackerKey, t.claims)],
      [t EXCEPT !.claims.User_Type = "ADMIN"],
      [t EXCEPT !.claims.ExpiresAt = MaxTime + AccessTTL] } \ {t}

HeaderTokens ==
    {AbsentToken, EmptyToken, MalformedToken} \cup issued
        \cup UNION {Forged(t) : t \in issued}

Headers ==
    {[token |-> t, authorization |-> AbsentToken] : t \in HeaderTokens}
        \cup {[token |-> e, authorization |-> t] :
                e \in {AbsentToken, EmptyToken}, t \in issued}

(* Only Authentication reads the headers: a route whose chain has no      *)
(* Authentication is sent requests without a usable token.                *)
ReadsHeaders(r) == \E i \in 1..Len(Routes[r].chain) : Routes[r].chain[i] = A

HeadersOf(r) ==
    IF ReadsHeaders(r) THEN Headers
    ELSE {[token |-> t, authorization |-> AbsentToken] :
            t \in {AbsentToken, MalformedToken}}

EmailInputs == Emails \cup {"nobody"}

SignupBodies ==
    {NoBody} \cup
    [json : {TRUE}, first_name : FirstNames, last_name : LastNames,
     email : EmailInputs, password : Passwords, phone : Phones,
     user_type : UserTypeInputs]

LoginPasswords == Passwords \cup {"wrong-pw"}

LoginBodies ==
    {NoBody} \cup
    [json : {TRUE}, first_name : {""}, last_name : {""},
     email : EmailInputs, password : LoginPasswords, phone : {""},
     user_type : {""}]

(* A Login with this body can get as far as issuing tokens *)
CanLogin(b) ==
    \E u \in users : u.email = b.email /\ VerifyPassword(u.password, b.password)

Bodies(r) ==
    IF Routes[r].chain = <<"Signup">>
    THEN {b \in SignupBodies :
            nextId <= MaxUsers \/ CountDocuments(b.email) > 0 \/ ~ValidUser(b)}
    ELSE IF Routes[r].chain = <<"Login">>
    THEN {b \in LoginBodies :
            Cardinality(issued) < MaxIssued \/ ~b.json \/ ~CanLogin(b)}
    ELSE {NoBody}

-----------------------------------------------------------------------------
(* The state machine *)

Init ==
    /\ now = 0
    /\ users = {}
    /\ nextId = 1
    /\ issued = {}
    /\ req = IdleCtx
    /\ secretOk \in BOOLEAN
    /\ procs = [p \in 1..NumProcs |-> IdleCtx]
    /\ colls = [res \in Resources |-> {}]

(* A request arrives and is routed to its chain *)
Receive ==
    /\ req.pc = "idle"
    /\ \E r \in RouteIds :
         \E h \in HeadersOf(r), b \in Bodies(r) :
            req' = [IdleCtx EXCEPT !.pc = "chain", !.route = r,
                                   !.token = h.token,
                                   !.authorization = h.authorization,
                                   !.body = b]
    /\ UNCHANGED <<now, users, nextId, issued, secretOk, procs, colls>>

AuthenticationStage ==
    /\ req.pc = "chain" /\ Stage(req) = A
    /\ req' = Advance(Authentication(Enter(req)))
    /\ UNCHANGED <<now, users, nextId, issued, secretOk, procs, colls>>

RequireAdminStage ==
    /\ req.pc = "chain" /\ Stage(req) = Adm
    /\ req' = Advance(RequireAdmin(Enter(req)))
    /\ UNCHANGED <<now, users, nextId, issued, secretOk, procs, colls>>

SignupStage ==
    /\ req.pc = "chain" /\ Stage(req) = "Signup"
    /\ \E fault \in SignupFaults :
         LET out == Signup(Enter(req), fault)
         IN  /\ req' = Advance(out.c)
             /\ users' = out.users
             /\ nextId' = out.nextId
             /\ issued' = out.issued
    /\ UNCHANGED <<now, secretOk, procs, colls>>

LoginStage ==
    /\ req.pc = "chain" /\ Stage(req) = "Login"
    /\ \E fault \in LoginFaults, found \in FindOne(req.body.email) :
         LET out == Login(Enter(req), found, fault)
         IN  /\ req' = Advance(out.c)
             /\ users' = out.users
             /\ nextId' = out.nextId
             /\ issued' = out.issued
    /\ UNCHANGED <<now, secretOk, procs, colls>>

GetUserStage ==
    /\ req.pc = "chain" /\ Stage(req) = "GetUser"
    /\ \E fault \in {"none", "find"},
          found \in FindOne(GetString(req, "email")) :
         LET out == GetUser(Enter(req), found, fault)
         IN  /\ req' = Advance(out.c)
             /\ users' = out.users
             /\ nextId' = out.nextId
             /\ issued' = out.issued
    /\ UNCHANGED <<now, secretOk, procs, colls>>

ResourceHandlerStage ==
    /\ req.pc = "chain" /\ Stage(req) \notin Middleware \cup Modelled
    /\ \E status \in HandlerStatuses(Stage(req)) :
         req' = Advance(ResourceHandler(Enter(req), status))
    /\ UNCHANGED <<now, users, nextId, issued, secretOk, procs, colls>>

(* The response goes out and the context is released *)
Reply ==
    /\ req.pc = "done"
    /\ req' = IdleCtx
    /\ UNCHANGED <<now, users, nextId, issued, secretOk, procs, colls>>

Tick ==
    /\ now < MaxTime
    /\ now' = now + 1
    /\ UNCHANGED <<users, nextId, issued, req, secretOk, procs, colls>>

Next ==
    \/ Receive
    \/ AuthenticationStage
    \/ RequireAdminStage
    \/ SignupStage
    \/ LoginStage
    \/ GetUserStage
    \/ ResourceHandlerStage
    \/ Reply
    \/ Tick

Spec == Init /\ [][Next]_vars

-----------------------------------------------------------------------------
(* Properties of the gate layer *)

InRan(s) == \E i \in 1..Len(req.ran) : req.ran[i] = s
Passed(s) == InRan(s) /\ req.by # s
AdminRoute == \E i \in 1..Len(Chain(req)) : Chain(req)[i] = Adm

(* What ValidateToken returned when Authentication called it *)
Verdict == ParseWithClaims(HeaderGet(req), req.validatedAt)

KeysAre(claims) ==
    /\ req.keys["email"] = claims.Email
    /\ req.keys["first_name"] = claims.First_Name
    /\ req.keys["last_name"] = claims.Last_Name
    /\ req.keys["user_type"] = claims.User_Type

(* Authentication wrote the response and nothing ran after it *)
RejectedByAuthentication ==
    /\ req.pc = "done"
    /\ req.status = 401 /\ req.by = A /\ req.error # ""
    /\ req.ran[Len(req.ran)] = A
    /\ Handler(req) \notin {req.ran[i] : i \in 1..Len(req.ran)}

(* C1: a request that reaches Authentication() without a token header, or  *)
(* with an empty one, gets 401 with an error string, whatever its          *)
(* Authorization header holds, and no later stage of its chain runs.       *)
C1_MissingTokenIs401 ==
    (InRan(A) /\ req.token.form \in {"absent", "empty"})
        => /\ RejectedByAuthentication
           /\ req.ran = <<A>>
           /\ req.validated = 0

C1_Witness ==
    /\ InRan(A) /\ req.token.form = "absent"
    /\ req.authorization \in issued
    /\ req.authorization.claims.User_Type = "ADMIN"
    /\ now <= req.authorization.claims.ExpiresAt
    /\ AdminRoute

(* C2: when the token header is present and ValidateToken reports an error *)
(* (malformed, bad signature or expired), Authentication() answers 401     *)
(* carrying that reason, no later stage runs and no identity key is set.   *)
C2_InvalidTokenIs401 ==
    (InRan(A) /\ HeaderGet(req) # EmptyToken /\ Verdict.msg # "")
        => /\ RejectedByAuthentication
           /\ req.error = Verdict.msg
           /\ req.ran = <<A>>
           /\ req.keys = NoKeys

C2_Witness ==
    /\ InRan(A) /\ req.token \in issued /\ Verdict.msg = "ExpiredToken"
    /\ AdminRoute

(* C3: whenever Authentication() passes a request through, the four        *)
(* identity keys hold exactly the claims ValidateToken returned for the    *)
(* request's token, from the moment the next stage is about to run.        *)
C3_PassThroughSetsClaims ==
    Passed(A)
        => /\ Verdict.msg = ""
           /\ KeysAre(Verdict.claims)
           /\ Verdict.claims = req.token.claims

C3_Witness ==
    /\ Passed(A) /\ req.ran = <<A>> /\ req.pc = "chain" /\ req.index = 2
    /\ req.keys["first_name"] \in FirstNames

(* C4: on an admin-restricted route a valid token whose role is not ADMIN  *)
(* gets 403 "Admin access required" from RequireAdmin() and the resource   *)
(* handler is never invoked.                                               *)
C4_NonAdminIs403 ==
    (AdminRoute /\ Passed(A) /\ Verdict.claims.User_Type # "ADMIN")
        => /\ ~InRan(Handler(req))
           /\ InRan(Adm) =>
                /\ req.pc = "done"
                /\ req.status = 403 /\ req.by = Adm
                /\ req.error = "Admin access required"
                /\ req.ran = <<A, Adm>>

C4_Witness ==
    /\ AdminRoute /\ Passed(A) /\ InRan(Adm)
    /\ Verdict.claims.User_Type = "USER"
    /\ req.token \in issued

(* C5: on an admin-restricted route a valid ADMIN token passes both gates  *)
(* with no response written by either, the resource handler is the stage   *)
(* that runs next, and the identity keys are those of the token, not       *)
(* changed by RequireAdmin().                                              *)
C5_AdminPassesThrough ==
    (AdminRoute /\ Passed(A) /\ Verdict.claims.User_Type = "ADMIN"
                /\ InRan(Adm))
        => /\ KeysAre(req.token.claims)
           /\ req.by \notin Middleware
           /\ req.pc = "chain" =>
                /\ req.status = 0 /\ Stage(req) = Handler(req)
                /\ req.ran = <<A, Adm>>
           /\ req.pc = "done" =>
                /\ req.ran = <<A, Adm, Handler(req)>>
                /\ req.by = Handler(req)

C5_Witness ==
    /\ AdminRoute /\ Passed(A) /\ Verdict.claims.User_Type = "ADMIN"
    /\ req.pc = "done" /\ InRan(Handler(req))
    /\ req.token \in issued

(* C6: on every registered route whose chain holds RequireAdmin(),         *)
(* Authentication() is registered earlier in that chain; so whenever       *)
(* RequireAdmin has run on a request, Authentication ran before it, passed *)
(* the request through and set user_type.                                  *)
AdminRestricted ==
    { <<Routes[r].method, Routes[r].path>> :
        r \in {x \in RouteIds :
                 \E j \in 1..Len(Routes[x].chain) : Routes[x].chain[j] = Adm} }

C6_AdminGateAfterAuthentication ==
    /\ \A r \in RouteIds :
         \A j \in 1..Len(Routes[r].chain) :
            Routes[r].chain[j] = Adm
                => \E i \in 1..(j - 1) : Routes[r].chain[i] = A
    /\ AdminRestricted =
         ({"POST", "PUT", "DELETE"} \X {"/foods", "/foods/:id", "/menus",
              "/menus/:id", "/tables", "/tables/:id"}
            \cup {<<"PUT", "/invoices/:id">>})
         \ ({"POST"} \X {"/foods/:id", "/menus/:id", "/tables/:id"}
              \cup {"PUT", "DELETE"} \X {"/foods", "/menus", "/tables"})
    /\ InRan(Adm) =>
         /\ Len(req.ran) >= 2 /\ req.ran[1] = A /\ req.ran[2] = Adm
         /\ Passed(A) /\ Verdict.msg = ""
         /\ req.keys["user_type"] # Unset

C6_Witness ==
    /\ InRan(Adm) /\ Routes[req.route].path = "/invoices/:id"
    /\ req.keys["user_type"] = "USER"

(* C7: a resource handler (foods, menus, tables, orders, order items,      *)
(* invoices, /auth/user) runs only for a request that carried a valid      *)
(* token and, on an admin-restricted route, an ADMIN one.                  *)
C7_HandlersOnlyAuthenticated ==
    (InRan(Handler(req)) /\ Handler(req) \notin {"Signup", "Login"})
        => /\ Passed(A) /\ req.validated = 1 /\ Verdict.msg = ""
           /\ AdminRoute => req.keys["user_type"] = "ADMIN"

(* C8: the access token Signup returns for a valid (email, first name,     *)
(* last name, role) validates, until it expires, to claims equal to those  *)
(* inputs.                                                                 *)
C8_IssuedTokenRoundTrip ==
    (req.by = "Signup" /\ req.status = 201)
        => /\ req.body.user_type \in {"ADMIN", "USER"}
           /\ req.data \in issued
           /\ now <= req.data.claims.ExpiresAt =>
                LET v == ValidateToken(req.data)
                IN  /\ v.msg = ""
                    /\ v.claims.Email = req.body.email
                    /\ v.claims.First_Name = req.body.first_name
                    /\ v.claims.Last_Name = req.body.last_name
                    /\ v.claims.User_Type = req.body.user_type

C8_Witness ==
    /\ req.by = "Signup" /\ req.status = 201
    /\ req.body.user_type = "ADMIN"
    /\ now = req.data.claims.ExpiresAt
    /\ ValidateToken(req.data).claims.Email = req.body.email

(* C9: a token that differs from an issued one in its signature is         *)
(* rejected with the invalid-signature error, and the claims of a token    *)
(* the server did not issue are never attached to the request context.     *)
DiffersInSignature(t) ==
    /\ t.form = "jwt"
    /\ \E i \in issued : i.claims = t.claims /\ i.sig # t.sig

C9_TamperedSignatureRejected ==
    /\ (InRan(A) /\ DiffersInSignature(req.token))
         => /\ RejectedByAuthentication
            /\ req.error = "InvalidSignature"
            /\ req.keys = NoKeys
    /\ (InRan(A) /\ req.token \notin issued) => req.keys = NoKeys

C9_Witness ==
    /\ InRan(A) /\ DiffersInSignature(req.token) /\ AdminRoute
    /\ req.token.claims.User_Type = "ADMIN"
    /\ req.validatedAt <= req.token.claims.ExpiresAt

(* C10: a request with an issued token of expiry E is rejected by          *)
(* Authentication() with the expired error when the clock it validates at  *)
(* is past E, and passes when the clock is at or before E, E included.     *)
C10_ExpiryBoundary ==
    (InRan(A) /\ req.token \in issued)
        => LET E == req.token.claims.ExpiresAt
           IN  /\ req.validated = 1
               /\ req.validatedAt > E =>
                    /\ RejectedByAuthentication
                    /\ req.error = "ExpiredToken"
               /\ req.validatedAt <= E =>
                    /\ Passed(A)
                    /\ KeysAre(req.token.claims)

C10_Witness ==
    /\ InRan(A) /\ req.token \in issued /\ Passed(A)
    /\ req.validatedAt = req.token.claims.ExpiresAt
    /\ req.validatedAt > 0

-----------------------------------------------------------------------------
(* The resource handlers on their collections. None of them reads what the *)
(* gates set in the context, so a request is taken up where the gates of   *)
(* its route have let it through.                                          *)

ResourceRoutes == {r \in RouteIds : Handler([route |-> r]) \in ResourceHandlers}

(* The claims Authentication() set for a request it let through *)
StaffClaims ==
    [Email |-> "a@x.io", First_Name |-> "Ann", Last_Name |-> "Lee",
     User_Type |-> "ADMIN", ExpiresAt |-> MaxTime + AccessTTL]

Admitted(r, param, input) ==
    LET chain == Routes[r].chain
        c == [IdleCtx EXCEPT !.pc = "chain", !.route = r,
                             !.index = Len(chain),
                             !.ran = SubSeq(chain, 1, Len(chain) - 1),
                             !.param = param, !.input = input]
    IN  IF ReadsHeaders(r)
        THEN [SetClaims(c, StaffClaims) EXCEPT
                 !.token = SignedToken(StaffClaims), !.validated = 1,
                 !.validatedAt = now]
        ELSE c

ParamsOf(op) == IF op \in {"get", "update", "delete"} THEN Params ELSE {NoParam}

InputsOf(res, op) ==
    IF op = "update" THEN UpdateInputs[res]
    ELSE IF op = "create"
    THEN {b \in CreateInputs[res] :
            nextId <= MaxDocs \/ b = NoInput \/ ~ValidBody(res, b)}
    ELSE {NoInput}

(* The collections do not refer to each other: requests go to one          *)
(* collection for as long as it holds documents.                           *)
InUse(res) == \A other \in Resources \ {res} : colls[other] = {}

RouteTable ==
    [r \in ResourceRoutes |->
        [res |-> ResOf(Handler([route |-> r])),
         op |-> OpOf(Handler([route |-> r]))]]

InitRes ==
    /\ Init
    /\ secretOk

ResReceive ==
    /\ req.pc = "idle"
    /\ \E r \in ResourceRoutes :
         LET res == RouteTable[r].res
             op == RouteTable[r].op
         IN  /\ InUse(res)
             /\ \E param \in ParamsOf(op), input \in InputsOf(res, op) :
                    req' = Admitted(r, param, input)
    /\ UNCHANGED <<now, users, nextId, issued, secretOk, procs, colls>>

ResHandlerStage ==
    /\ req.pc = "chain" /\ Stage(req) \in ResourceHandlers
    /\ \E fault \in ResFaults(OpOf(Stage(req))) :
         LET out == Resource(Enter(req), fault)
         IN  /\ req' = Advance(out.c)
             /\ colls' = out.colls
             /\ nextId' = out.nextId
    /\ UNCHANGED <<now, users, issued, secretOk, procs>>

(* Stamps compare two instants, the creation and the update: the clock of *)
(* this specification stops one tick before MaxTime.                       *)
ResTick ==
    /\ now < MaxTime - 1
    /\ Tick

NextRes ==
    \/ ResReceive
    \/ ResHandlerStage
    \/ Reply
    \/ ResTick

SpecRes == InitRes /\ [][NextRes]_vars

-----------------------------------------------------------------------------
(* The food routes behind their gates: tokens come from Signup, pass        *)
(* through Authentication and RequireAdmin, and the food handlers work on  *)
(* the collection.                                                         *)

SignupRoute == CHOOSE r \in RouteIds : Routes[r].chain = <<"Signup">>

FoodRouteIds == {r \in ResourceRoutes : RouteTable[r].res = "foods"}

(* What the handlers make of ids and bodies is settled under SpecRes: the *)
(* requests here carry a body that binds and validates, and the id of a    *)
(* stored food or an unknown one; one food is created after the signups.   *)
FoodInputs(op) ==
    IF op = "update" THEN {SecondBody("foods")}
    ELSE IF op = "create"
    THEN {b \in {FirstBody("foods")} : nextId <= MaxUsers + 1}
    ELSE {NoInput}

FoodParams(op) ==
    {param \in ParamsOf(op) :
        param.hex => \/ param.oid \in {d["_id"] : d \in colls["foods"]}
                     \/ param.oid = MaxDocs + 1}

(* No token, a malformed one, an issued one, or an issued one whose role   *)
(* was rewritten without the key.                                          *)
FoodHeaders(r) ==
    IF ReadsHeaders(r)
    THEN {[token |-> t, authorization |-> AbsentToken] :
            t \in {AbsentToken, MalformedToken} \cup issued
                  \cup {[u EXCEPT !.claims.User_Type = "ADMIN"] : u \in issued}}
    ELSE HeadersOf(r)

FoodReceive ==
    /\ req.pc = "idle"
    /\ \/ \E h \in HeadersOf(SignupRoute), b \in Bodies(SignupRoute) :
            req' = [IdleCtx EXCEPT !.pc = "chain", !.route = SignupRoute,
                                   !.token = h.token,
                                   !.authorization = h.authorization,
                                   !.body = b]
       \/ \E r \in FoodRouteIds :
            \E h \in FoodHeaders(r), param \in FoodParams(RouteTable[r].op),
               input \in FoodInputs(RouteTable[r].op) :
               req' = [IdleCtx EXCEPT !.pc = "chain", !.route = r,
                                      !.token = h.token,
                                      !.authorization = h.authorization,
                                      !.param = param, !.input = input]
    /\ UNCHANGED <<now, users, nextId, issued, secretOk, procs, colls>>

NextFood ==
    \/ FoodReceive
    \/ AuthenticationStage
    \/ RequireAdminStage
    \/ SignupStage
    \/ ResHandlerStage
    \/ Reply
    \/ Tick

SpecFood == Init /\ [][NextFood]_vars

-----------------------------------------------------------------------------
(* Concurrent Signups: gin serves each request on its own goroutine, so    *)
(* the existence check and the insert of one Signup are separate steps     *)
(* between which the steps of another may fall. InsertOne adds the         *)
(* document under its fresh _id.                                           *)

Procs == 1..NumProcs

ConcInit ==
    /\ Init
    /\ secretOk

ConcReceive(p) ==
    /\ procs[p].pc = "idle"
    /\ nextId <= NumProcs
    /\ \E b \in SignupBodies :
         procs' = [procs EXCEPT ![p] =
                     [IdleCtx EXCEPT !.pc = "chain", !.route = SignupRoute,
                                     !.body = b]]
    /\ UNCHANGED <<now, users, nextId, issued, req, secretOk, colls>>

(* BindJSON, validate.Struct and CountDocuments *)
SignupCountStep(p) ==
    /\ procs[p].pc = "chain"
    /\ \E fault \in {"none", "count"} :
         LET c == Enter(procs[p])
             c1 == SignupCheck(c, fault)
         IN  procs' = [procs EXCEPT ![p] =
                         IF Responded(c1, c) THEN Advance(c1)
                         ELSE [c1 EXCEPT !.pc = "counted"]]
    /\ UNCHANGED <<now, users, nextId, issued, req, secretOk, colls>>

(* HashPassword, GenerateAllTokens and InsertOne *)
SignupInsertStep(p) ==
    /\ procs[p].pc = "counted"
    /\ \E fault \in {"none", "hash", "insert"} :
         LET out == SignupCreate(procs[p], fault)
         IN  /\ procs' = [procs EXCEPT ![p] = Advance(out.c)]
             /\ users' = out.users
             /\ nextId' = out.nextId
             /\ issued' = out.issued
    /\ UNCHANGED <<now, req, secretOk, colls>>

ConcReply(p) ==
    /\ procs[p].pc = "done"
    /\ procs' = [procs EXCEPT ![p] = IdleCtx]
    /\ UNCHANGED <<now, users, nextId, issued, req, secretOk, colls>>

NextConc ==
    \E p \in Procs :
        \/ ConcReceive(p)
        \/ SignupCountStep(p)
        \/ SignupInsertStep(p)
        \/ ConcReply(p)

SpecConc == ConcInit /\ [][NextConc]_vars

-----------------------------------------------------------------------------
(* Concurrent Logins: FindOne, GenerateAllTokens and UpdateOne of one      *)
(* Login are separate steps between which the steps of another may fall.   *)
(* They are Logins for one account, which comes from a Signup; what Login  *)
(* answers to an unknown email or a failed FindOne is settled under Spec.  *)

LoginRoute == CHOOSE r \in RouteIds : Routes[r].chain = <<"Login">>

LoginAccounts ==
    {b \in SignupBodies :
        ValidUser(b) /\ b.user_type = "USER" /\ b.email = "a@x.io"}

LoginTries ==
    {b \in Bodies(LoginRoute) :
        b.json => \E u \in users : u.email = b.email}

AccountReceive ==
    /\ req.pc = "idle"
    /\ \E b \in LoginAccounts \cap Bodies(SignupRoute) :
         req' = [IdleCtx EXCEPT !.pc = "chain", !.route = SignupRoute,
                                !.body = b]
    /\ UNCHANGED <<now, users, nextId, issued, secretOk, procs, colls>>

LoginReceive(p) ==
    /\ procs[p].pc = "idle"
    /\ \E b \in LoginTries :
         procs' = [procs EXCEPT ![p] =
                     [IdleCtx EXCEPT !.pc = "chain", !.route = LoginRoute,
                                     !.body = b]]
    /\ UNCHANGED <<now, users, nextId, issued, req, secretOk, colls>>

(* BindJSON, FindOne and VerifyPassword; foundUser is kept in the fields   *)
(* Login reads afterwards.                                                 *)
LoginFindStep(p) ==
    /\ procs[p].pc = "chain"
    /\ \E found \in FindOne(procs[p].body.email) :
         LET c == Enter(procs[p])
             c1 == LoginCheck(c, found, "none")
         IN  procs' = [procs EXCEPT ![p] =
                         IF Responded(c1, c) THEN Advance(c1)
                         ELSE [c1 EXCEPT !.pc = "verified",
                                         !.user = LoginUser(found)]]
    /\ UNCHANGED <<now, users, nextId, issued, req, secretOk, colls>>

(* GenerateAllTokens: the pair is held in local variables *)
LoginIssueStep(p) ==
    /\ procs[p].pc = "verified"
    /\ LET c == procs[p]
           tokens == GenerateAllTokens(c.user.email, c.user.first_name,
                                       c.user.last_name, c.user.user_type)
       IN  procs' = [procs EXCEPT ![p] =
                       IF tokens.err
                       THEN Advance(JSON(c, "Login", 500,
                                         "Error generating tokens"))
                       ELSE [c EXCEPT !.pc = "signed", !.doc = tokens]]
    /\ UNCHANGED <<now, users, nextId, issued, req, secretOk, colls>>

(* UpdateOne and the response *)
LoginUpdateStep(p) ==
    /\ procs[p].pc = "signed"
    /\ \E fault \in {"none", "update"} :
         LET c == procs[p]
         IN  IF fault = "update"
             THEN /\ procs' = [procs EXCEPT ![p] =
                                 Advance(JSON(c, "Login", 500,
                                              "Error updating tokens"))]
                  /\ UNCHANGED <<users, issued>>
             ELSE /\ procs' = [procs EXCEPT ![p] =
                                 Advance([JSON(c, "Login", 200, "")
                                             EXCEPT !.data = c.doc.token])]
                  /\ users' = UpdateTokens(c.user.id, c.doc)
                  /\ issued' = issued \cup {c.doc.token}
    /\ UNCHANGED <<now, nextId, req, secretOk, colls>>

LoginReply(p) ==
    /\ procs[p].pc = "done"
    /\ procs' = [procs EXCEPT ![p] = IdleCtx]
    /\ UNCHANGED <<now, users, nextId, issued, req, secretOk, colls>>

NextLogin ==
    \/ AccountReceive
    \/ SignupStage
    \/ Reply
    \/ ResTick
    \/ \E p \in Procs :
          \/ LoginReceive(p)
          \/ LoginFindStep(p)
          \/ LoginIssueStep(p)
          \/ LoginUpdateStep(p)
          \/ LoginReply(p)

SpecLogin == ConcInit /\ [][NextLogin]_vars

-----------------------------------------------------------------------------
(* Credentials: Signup, Login and GetUser *)

(* A Login request is routed and its handler is the next stage to run *)
AtLogin == req.pc = "chain" /\ Stage(req) = "Login"

LoginDone == req.pc = "done" /\ req.by = "Login"

(* The stored users whose email is the one of the request body *)
Matching == {u \in users : u.email = req.body.email}

(* A request for GET /auth/user carrying token t, entering its chain *)
Probe(t) ==
    Enter([IdleCtx EXCEPT !.pc = "chain",
                          !.route = CHOOSE r \in RouteIds :
                                        Routes[r].path = "/auth/user",
                          !.token = t])

(* C11: VerifyPassword(HashPassword(p), p) is true for every password p    *)
(* and VerifyPassword(HashPassword(p1), p2) is false for p1 # p2; so Login *)
(* for a signed-up user succeeds with the password given at signup and     *)
(* answers 401 for any other password.                                     *)
C11_VerifyHashLogin ==
    /\ \A p1 \in LoginPasswords, p2 \in LoginPasswords :
         VerifyPassword(HashPassword(p1), p2) <=> (p1 = p2)
    /\ \A u \in users : \E p \in Passwords : u.password = HashPassword(p)
    /\ AtLogin /\ req.body.json =>
         \A u \in Matching :
            /\ u.password = HashPassword(req.body.password) =>
                 Login(Enter(req), u, "none").c.status = 200
            /\ u.password # HashPassword(req.body.password) =>
                 \A fault \in LoginFaults :
                    Login(Enter(req), u, fault).c.status = 401
    /\ LoginDone /\ req.body.json /\ Matching # {} =>
         /\ req.status = 200 =>
              \E u \in Matching : u.password = HashPassword(req.body.password)
         /\ (\A u \in Matching : u.password # HashPassword(req.body.password))
              => req.status = 401

C11_Witness ==
    /\ LoginDone /\ req.status = 200
    /\ req.body.password \in Passwords
    /\ \E u \in Matching : VerifyPassword(u.password, req.body.password)

(* C12: for every stored user, a Login with the user's email and password  *)
(* answers 200 with a token that, presented in the token header at once,   *)
(* passes Authentication() with the email claim equal to the email logged  *)
(* in with and the role stored for the user.                               *)
C12_LoginTokenRoundTrip ==
    [][ /\ (AtLogin /\ req.body.json) =>
             \A u \in Matching :
                VerifyPassword(u.password, req.body.password) =>
                   Login(Enter(req), u, "none").c.status = 200
        /\ (LoginStage /\ req'.status = 200) =>
             LET c == Authentication(Probe(req'.data))
             IN  /\ ~c.aborted /\ c.status = 0
                 /\ GetString(c, "email") = req.body.email
                 /\ \E u \in users :
                       /\ u.email = req.body.email
                       /\ GetString(c, "user_type") = u.user_type
      ]_vars

C12_Witness ==
    /\ LoginDone /\ req.status = 200
    /\ req.data.claims.ExpiresAt = now + AccessTTL
    /\ GetString(Authentication(Probe(req.data)), "email") = req.body.email

(* C13: what Authentication() does with a token at a clock value does not  *)
(* depend on the users collection: it is rejected exactly when malformed,  *)
(* wrongly signed or expired, so an unexpired issued token passes also     *)
(* after later Logins have overwritten the stored token and refresh token. *)
StoreFreeOutcome(t) ==
    LET c == Probe(t)
        v == ParseWithClaims(HeaderGet(c), now)
    IN  IF HeaderGet(c) = EmptyToken
        THEN Abort(JSON(c, A, 401, "No Authorization header provided"))
        ELSE IF v.msg # ""
        THEN Abort(JSON(Validated(c), A, 401, v.msg))
        ELSE SetClaims(Validated(c), v.claims)

Overwritten(t) ==
    /\ t \in issued
    /\ \E u \in users : u.email = t.claims.Email
    /\ \A u \in users : u.token # t /\ u.refresh_token # t

C13_NoRevocation ==
    /\ req.pc = "idle" =>
         /\ \A t \in HeaderTokens :
               Authentication(Probe(t)) = StoreFreeOutcome(t)
         /\ \A t \in issued :
               Authentication(Probe(t)).aborted <=> now > t.claims.ExpiresAt
    /\ (InRan(A) /\ HeaderGet(req) \in issued) =>
         (Passed(A) <=> req.validatedAt <= HeaderGet(req).claims.ExpiresAt)

C13_Witness ==
    /\ InRan(A) /\ Passed(A)
    /\ Overwritten(req.token)
    /\ ~Authentication(Probe(req.token)).aborted

(* C14: email is a unique key of the users collection: after any           *)
(* interleaving of Signup requests, two concurrent ones with the same      *)
(* email included, the collection holds at most one record per email.      *)
C14_EmailUnique ==
    \A u1 \in users, u2 \in users : u1.email = u2.email => u1 = u2

(* C15: a Signup whose email already belongs to a stored user inserts no   *)
(* record, returns no token and leaves the stored records unchanged; when  *)
(* its body binds and validates and the count succeeds it answers 409 with *)
(* the error "Email already exists".                                       *)
AtSignup == req.pc = "chain" /\ Stage(req) = "Signup"

Response(c) ==
    [status |-> c.status, error |-> c.error, data |-> c.data, user |-> c.user]

LoginRequest(b) ==
    Enter([IdleCtx EXCEPT !.pc = "chain",
                          !.route = CHOOSE r \in RouteIds :
                                        Routes[r].chain = <<"Login">>,
                          !.body = b])

UnknownEmail(b) == b.json /\ CountDocuments(b.email) = 0

WrongPassword(b, u) ==
    b.json /\ u.email = b.email /\ ~VerifyPassword(u.password, b.password)

C16_LoginRejectionsAlike ==
    /\ LoginDone =>
         \A b1 \in LoginBodies, b2 \in LoginBodies, u \in users :
            (UnknownEmail(b1) /\ WrongPassword(b2, u)) =>
               \A f1 \in LoginFaults, f2 \in LoginFaults :
                  /\ Response(Login(LoginRequest(b1), NoUser, f1).c)
                       = Response(Login(LoginRequest(b2), u, f2).c)
                  /\ Login(LoginRequest(b2), u, f2).c.status = 401
    /\ (LoginDone /\ req.body.json
          /\ \A u \in Matching : ~VerifyPassword(u.password, req.body.password))
         => Response(req) = [status |-> 401,
                             error |-> "Invalid email or password",
                             data |-> AbsentToken, user |-> NoUser]

C16_Witness ==
    /\ LoginDone /\ req.status = 401
    /\ \E u \in users : WrongPassword(req.body, u)
    /\ \E b \in LoginBodies :
         /\ UnknownEmail(b)
         /\ Response(Login(LoginRequest(b), NoUser, "none").c) = Response(req)

(* C17: in every reachable state each stored record's password is an       *)
(* output of HashPassword and never a submitted plaintext; a Signup whose  *)
(* HashPassword fails answers 500 and inserts nothing.                     *)
Plaintexts == Passwords \cup LoginPasswords

C17_OnlyHashStored ==
    /\ \A u \in users :
         /\ u.password \in {HashPassword(p) : p \in Passwords}
         /\ u.password \notin Plaintexts
    /\ (req.pc = "done" /\ req.by = "Signup" /\ req.status = 201) =>
         /\ req.user.password = HashPassword(req.body.password)
         /\ \E u \in users : u.ID = req.user.ID /\ u.password = req.user.password
    /\ (AtSignup /\ req.body.json /\ ValidUser(req.body)
          /\ CountDocuments(req.body.email) = 0) =>
         LET out == Signup(Enter(req), "hash")
         IN  /\ out.c.status = 500
             /\ out.users = users
    /\ (req.by = "Signup" /\ req.error = "Error hashing password") =>
         /\ req.status = 500
         /\ CountDocuments(req.body.email) = 0

C17_Witness ==
    /\ req.pc = "done" /\ req.by = "Signup" /\ req.status = 201
    /\ req.body.password \in Passwords
    /\ \E u \in users :
         /\ u.email = req.body.email
         /\ u.password = HashPassword(req.body.password)
         /\ u.password # req.body.password

(* C18: no success response of Login or GetUser holds the user's password, *)
(* plaintext or hash: the user object of a Login 200 has exactly id,       *)
(* email, first_name, last_name and user_type, and GetUser blanks the      *)
(* password before it responds.                                            *)
Secrets == Plaintexts \cup {u.password : u \in users}

TextFields == {"email", "first_name", "last_name", "user_type"}

C18_NoPasswordInResponses ==
    /\ (LoginDone /\ req.status = 200) =>
         /\ DOMAIN req.user = {"id"} \cup TextFields
         /\ \A f \in TextFields : req.user[f] \notin Secrets
    /\ (req.pc = "done" /\ req.by = "GetUser" /\ req.status = 200) =>
         /\ req.user.password = ""
         /\ \A f \in TextFields \cup {"phone"} : req.user[f] \notin Secrets

C18_Witness ==
    /\ req.pc = "done" /\ req.by = "GetUser" /\ req.status = 200
    /\ req.user.password = ""
    /\ \E u \in users : u.email = req.user.email /\ u.password \in Secrets

(* C19: token issuance never fails as the outcome of a request: with the   *)
(* signing secret unavailable the process does not get to serve requests,  *)
(* so no Signup or Login ends in the token-generation error response.      *)
C19_NoTokenGenerationError ==
    ~ /\ req.by \in {"Signup", "Login"}
      /\ req.error = "Error generating tokens"

(* C20: a request that enters Authentication() calls ValidateToken at most *)
(* once and ends up either passed or rejected, never both; a rejected      *)
(* request has exactly one response and nothing more happens to it, and a  *)
(* passed request is never rejected by Authentication later.               *)
CountRan(s) == Cardinality({i \in 1..Len(req.ran) : req.ran[i] = s})

RejectedByA == InRan(A) /\ req.by = A

C20_AuthenticationTerminal ==
    /\ [](/\ req.validated <= 1
          /\ CountRan(A) <= 1
          /\ InRan(A) => (Passed(A) <=> ~RejectedByA)
          /\ RejectedByA =>
               /\ RejectedByAuthentication
               /\ req.writes = 1)
    /\ [][ /\ RejectedByA => (req' = req \/ (Reply /\ req' = IdleCtx))
           /\ (Passed(A) /\ req'.pc # "idle") =>
                (~RejectedByA' /\ req'.validated = req.validated)
         ]_vars

C20_Witness ==
    /\ RejectedByAuthentication
    /\ req.validated = 1 /\ req.writes = 1
    /\ req.token \in issued

-----------------------------------------------------------------------------
(* Roles, the gates of the food routes, and what Signup returns *)

Roles == {"ADMIN", "USER"}

SignupDone == req.pc = "done" /\ req.by = "Signup"

(* C21: every stored user, and so every token Signup or Login issues,      *)
(* carries the role ADMIN or USER: Signup answers 400 to any other         *)
(* user_type before it hashes, issues or inserts, and no operation changes *)
(* the role of a stored user.                                              *)
C21_RolesAdminOrUser ==
    /\ [](/\ \A u \in users : u.user_type \in Roles
          /\ \A t \in issued : t.claims.User_Type \in Roles
          /\ (req.pc = "done" /\ req.by \in {"Signup", "Login"}
                /\ req.data # AbsentToken)
               => req.data.claims.User_Type \in Roles)
    /\ [][ /\ (SignupStage /\ req.body.json /\ req.body.user_type \notin Roles)
             => /\ req'.status = 400
                /\ users' = users /\ issued' = issued /\ nextId' = nextId
           /\ \A u \in users : \A v \in users' :
                v.ID = u.ID => v.user_type = u.user_type
         ]_vars

C21_Witness ==
    /\ SignupDone /\ req.status = 400
    /\ req.body.json /\ req.body.user_type = "GUEST"
    /\ req.body.email \in Emails
    /\ users # {}

(* C23: GET /foods and GET /foods/{id} require authentication: a request   *)
(* to either with a missing or invalid token gets 401 and the GetFoods or  *)
(* GetFood handler does not run.                                           *)
C23_GetFoodsNeedToken ==
    (/\ req.pc = "done"
     /\ Handler(req) \in {"GetFoods", "GetFood"}
     /\ ParseWithClaims(HeaderGet(req), now).msg # "")
        => /\ req.status = 401
           /\ ~InRan(Handler(req))

(* C27: RequireAdmin() fails closed: when user_type is absent from the     *)
(* request context or is any string other than "ADMIN" it answers 403 and  *)
(* the handler is not invoked; an unset role never passes.                 *)
RoleValues == {Unset, "", "USER", "GUEST", "admin", "ADMIN"}

AtRequireAdmin == req.pc = "chain" /\ Stage(req) = Adm

C27_RequireAdminFailsClosed ==
    /\ AtRequireAdmin =>
         \A v \in RoleValues :
            LET c == RequireAdmin(Enter([req EXCEPT !.keys["user_type"] = v]))
            IN  IF v = "ADMIN"
                THEN ~c.aborted /\ c.status = 0
                ELSE /\ c.aborted /\ c.status = 403
                     /\ c.error = "Admin access required"
                     /\ Advance(c).pc = "done"
                     /\ ~\E i \in 1..Len(c.ran) : c.ran[i] = Handler(c)
    /\ (InRan(Adm) /\ req.keys["user_type"] # "ADMIN") =>
         /\ req.pc = "done" /\ req.status = 403 /\ req.by = Adm
         /\ ~InRan(Handler(req))
    /\ (InRan(Adm) /\ InRan(Handler(req))) => req.keys["user_type"] = "ADMIN"

C27_Witness ==
    /\ InRan(Adm) /\ req.by = Adm /\ req.status = 403
    /\ req.keys["user_type"] = "USER"
    /\ ~InRan(Handler(req))
    /\ RequireAdmin([req EXCEPT !.keys["user_type"] = Unset]).aborted

(* C29: Signup needs no token and issues tokens with the user_type of the  *)
(* request body: a Signup with a fresh email and user_type ADMIN returns a *)
(* token that passes Authentication() and RequireAdmin() on every          *)
(* admin-restricted route.                                                 *)
AdminRoutes ==
    {r \in RouteIds : \E i \in 1..Len(Routes[r].chain) : Routes[r].chain[i] = Adm}

(* A request for route r carrying token t, taken through the two gates *)
ThroughGates(r, t) ==
    LET c0 == Enter([IdleCtx EXCEPT !.pc = "chain", !.route = r, !.token = t])
        c1 == Advance(Authentication(c0))
    IN  IF c1.pc = "chain" /\ Stage(c1) = Adm
        THEN Advance(RequireAdmin(Enter(c1)))
        ELSE c1

C29_SignupGrantsAdmin ==
    /\ Routes[SignupRoute].chain = <<"Signup">>
    /\ SignupDone => (req.ran = <<"Signup">> /\ req.validated = 0)
    /\ (SignupDone /\ req.status = 201) =>
         /\ req.data.claims.User_Type = req.body.user_type
         /\ (req.body.user_type = "ADMIN" /\ now <= req.data.claims.ExpiresAt)
              => \A r \in AdminRoutes :
                    LET c == ThroughGates(r, req.data)
                    IN  /\ ~c.aborted /\ c.status = 0
                        /\ c.pc = "chain" /\ Stage(c) = Handler(c)

C29_Witness ==
    /\ SignupDone /\ req.status = 201
    /\ req.body.user_type = "ADMIN"
    /\ req.token = AbsentToken
    /\ AdminRoutes # {}
    /\ \A r \in AdminRoutes : ~ThroughGates(r, req.data).aborted

(* C30: Signup answers 201 only after the record was inserted, and the     *)
(* user object of the response is the inserted record: its password is the *)
(* stored hash and its token is the token returned at the top level; when  *)
(* the insert fails the answer is 500 and no token is returned.            *)
C30_SignupResponseIsRecord ==
    /\ (SignupDone /\ req.status = 201) =>
         /\ req.user \in users
         /\ req.user.password = HashPassword(req.body.password)
         /\ req.user.password # req.body.password
         /\ req.user.token = req.data
         /\ req.user.email = req.body.email
    /\ (SignupDone /\ req.status # 201) =>
         /\ req.data = AbsentToken /\ req.user = NoUser
    /\ (SignupDone /\ req.error = "User was not created") =>
         /\ req.status = 500
         /\ CountDocuments(req.body.email) = 0

C30_Witness ==
    /\ SignupDone /\ req.status = 201
    /\ req.user \in users
    /\ req.user.token = req.data /\ req.data \in issued

-----------------------------------------------------------------------------
(* Resource claims, settled under SpecRes                                  *)

AtResource(op) ==
    /\ req.pc = "chain"
    /\ Stage(req) \in ResourceHandlers
    /\ OpOf(Stage(req)) = op

DoneResource(op) ==
    /\ req.pc = "done"
    /\ req.by \in ResourceHandlers
    /\ OpOf(req.by) = op

(* C24: every stored table has table_number >= 1 and capacity >= 1 and     *)
(* every stored order item has quantity >= 1. UpdateTable and              *)
(* UpdateOrderItem bind the body and write it with $set without calling    *)
(* validate.Struct, so the statement fails after such an update.           *)
C24_StoredMeetTags ==
    /\ \A d \in colls["tables"] : d.table_number >= 1 /\ d.capacity >= 1
    /\ \A d \in colls["order_items"] : d.quantity >= 1

Ids(res) == {d["_id"] : d \in colls[res]}

SetKeys(res) ==
    CASE res = "foods" ->
           {"name", "price", "food_image", "menu_id", "updated_at"}
      [] res = "menus" ->
           {"name", "category", "start_date", "end_date", "updated_at"}
      [] res = "tables" ->
           {"table_number", "capacity", "is_available", "updated_at"}
      [] res = "orders" -> {"table_id", "status", "updated_at"}
      [] res = "order_items" ->
           {"order_id", "food_id", "quantity", "unit_price", "updated_at"}
      [] res = "invoices" ->
           {"order_id", "payment_method", "total_amount", "payment_status",
            "updated_at"}

UpdateSucceeds == AtResource("update") /\ req'.pc = "done" /\ req'.status = 200

(* C26: an update answered with 200 leaves every other collection and      *)
(* every other document of its collection as they were; the matched        *)
(* document keeps its keys, and the values of all keys outside the $set    *)
(* of the handler, among them _id, created_at and an order's order_date;   *)
(* the keys of the $set take the values of the body and the time of the    *)
(* update.                                                                 *)
C26_UpdateFrame ==
    [][UpdateSucceeds =>
         LET res == ResOf(Stage(req))
             objID == req.param.oid
             before == {d \in colls[res] : d["_id"] = objID}
             after == {d \in colls'[res] : d["_id"] = objID}
         IN  /\ \A r \in Resources \ {res} : colls'[r] = colls[r]
             /\ colls'[res] \ after = colls[res] \ before
             /\ Cardinality(before) = 1 /\ Cardinality(after) = 1
             /\ \A d \in before, e \in after :
                   /\ DOMAIN d \subseteq DOMAIN e
                   /\ DOMAIN e \subseteq DOMAIN d \cup SetKeys(res)
                   /\ {"_id", "created_at"} \subseteq DOMAIN d
                   /\ res = "orders" => "order_date" \in DOMAIN d
                   /\ \A k \in DOMAIN d \ SetKeys(res) : e[k] = d[k]
                   /\ \A k \in SetKeys(res) \ {"updated_at"} :
                         e[k] = req.input[k]
                   /\ e["updated_at"] = now]_vars

(* An order updated after its creation, next to another order *)
C26_Witness ==
    /\ DoneResource("update")
    /\ req.status = 200
    /\ ResOf(req.by) = "orders"
    /\ Cardinality(colls["orders"]) = 2
    /\ \E d \in colls["orders"] :
          /\ d["_id"] = req.param.oid
          /\ d.updated_at > d.created_at
          /\ d.order_date = d.created_at
          /\ d.status = req.input.status
    /\ \E d \in colls["orders"] :
          d["_id"] # req.param.oid /\ d.status # req.input.status

-----------------------------------------------------------------------------
(* The food handlers behind their gates, settled under SpecFood            *)

AdminOnlyFood == {"CreateFood", "UpdateFood", "DeleteFood"}

(* The token header is a token signed with the server's key, not expired   *)
(* at the given clock value, and its role is ADMIN.                        *)
ValidAdminToken(c, clock) ==
    /\ c.token.form = "jwt"
    /\ c.token.sig = Sign(SECRET_KEY, c.token.claims)
    /\ clock <= c.token.claims.ExpiresAt
    /\ c.token.claims.User_Type = "ADMIN"

ValidOtherToken(c, clock) ==
    /\ c.token.form = "jwt"
    /\ c.token.sig = Sign(SECRET_KEY, c.token.claims)
    /\ clock <= c.token.claims.ExpiresAt
    /\ c.token.claims.User_Type # "ADMIN"

(* C22: CreateFood, UpdateFood and DeleteFood run only for a request whose *)
(* token header was a valid token with role ADMIN when Authentication      *)
(* looked at it, and the foods collection changes only in the step of one  *)
(* of these handlers for such a request; on their routes a request without *)
(* a valid token ends with 401 and one with a valid token of another role  *)
(* with 403, neither having run the handler.                               *)
C22_FoodWritesAdminOnly ==
    /\ [](/\ \A h \in AdminOnlyFood :
               InRan(h) => /\ req.ran = <<A, Adm, h>>
                           /\ ValidAdminToken(req, req.validatedAt)
          /\ (req.pc = "done" /\ Handler(req) \in AdminOnlyFood) =>
               IF ValidAdminToken(req, req.validatedAt)
               THEN req.by = Handler(req)
               ELSE /\ ~InRan(Handler(req))
                    /\ IF ValidOtherToken(req, req.validatedAt)
                       THEN req.status = 403 /\ req.by = Adm
                       ELSE req.status = 401 /\ req.by = A)
    /\ [][colls' # colls =>
            /\ req.pc = "chain" /\ Stage(req) \in AdminOnlyFood
            /\ req.ran = <<A, Adm>>
            /\ ValidAdminToken(req, req.validatedAt)
            /\ req'.status \in {200, 201}
            /\ \A r \in Resources \ {"foods"} : colls'[r] = colls[r]]_vars

(* A food deleted by the holder of an issued ADMIN token *)
C22_Witness ==
    /\ req.pc = "done" /\ req.by = "DeleteFood" /\ req.status = 200
    /\ req.token \in issued
    /\ colls["foods"] = {}
    /\ \E u \in users : u.user_type = "ADMIN"

-----------------------------------------------------------------------------
(* The writes of Login, settled under SpecLogin                            *)

LoginWrites == {"token", "refresh_token", "updated_at"}

(* The token and the refresh token of a record were signed for its         *)
(* identity at one and the same instant.                                   *)
OnePair(u) ==
    \E t \in 0..now :
       LET claims(ttl) ==
               [Email |-> u.email, First_Name |-> u.first_name,
                Last_Name |-> u.last_name, User_Type |-> u.user_type,
                ExpiresAt |-> t + ttl]
       IN  /\ u.token = SignedToken(claims(AccessTTL))
           /\ u.refresh_token = SignedToken(claims(RefreshTTL))

(* Process p takes the step of Login that ends with the response *)
LoginEnds(p) == procs[p].pc \notin {"idle", "done"} /\ procs'[p].pc = "done"

====
